---- MODULE Spec2Model ----
(***************************************************************************)
(* A model of src/prolog_interpreter.py: the PrologInterpreter class        *)
(* (unification, goal resolution against facts and rules, the built-in      *)
(* predicates, chain resolution) and the query entry point only_ssi_test.   *)
(*                                                                          *)
(* Python values are modelled as follows.                                   *)
(*   - a term is a one-field record: a string [atom |-> s], a number        *)
(*     [num |-> i] or a Python list [list |-> <<its items>>].               *)
(*     A variable is, as in the source, the two-element list ["v", name].   *)
(*   - a bindings dict is a function from variable names to terms.          *)
(*   - a call that can run into Python's recursion limit carries the        *)
(*     number of frames still available (d); running out of frames is the   *)
(*     RecursionError outcome ("rec" / err = TRUE), which no function of    *)
(*     the source catches.                                                  *)
(*   - random.randint is an oracle: the sequence of suffixes it returns,    *)
(*     read cyclically, and the number of draws made so far (n).            *)
(*   - a dict is a mutable object: every function returns, next to its      *)
(*     result, the value its `bindings` argument object has when it         *)
(*     returns (arg), and copy.deepcopy marks its result as a fresh object. *)
(***************************************************************************)
EXTENDS Integers, Sequences, FiniteSets, TLC

VARIABLES facts, rules, pc, op, inp, out

vars == <<facts, rules, pc, op, inp, out>>

(***************************************************************************)
(* Bounds of the model.                                                     *)
(***************************************************************************)
\* frames available to one top-level call (Python's recursion limit, scaled)
RecursionLimit == 40
\* length of the cyclic sequence of suffixes the random oracle returns
OracleLen == 2
\* longest list among the terms handed to unify
MaxArgs == 2

(***************************************************************************)
(* Terms.                                                                   *)
(***************************************************************************)
Atom(s) == [atom |-> s]

Num(i) == [num |-> i]

List(e) == [list |-> e]

Var(name) == List(<<Atom("v"), Atom(name)>>)

Pred(name) == List(<<Atom("n"), Atom(name)>>)

\* a goal / fact:  [["n", name], [args...]]
Goal(name, args) == List(<<Pred(name), List(args)>>)

IsList(t) == "list" \in DOMAIN t

IsNumber(t) == "num" \in DOMAIN t

is_variable(term) == IsList(term) /\ Len(term.list) = 2 /\ term.list[1] = Atom("v")

is_atom(term) == ~IsList(term)

get_variable_name(var_term) == var_term.list[2].atom

EmptyBindings == <<>>

\* bindings[var_name] = term
Bind(bindings, var_name, term) ==
    [x \in (DOMAIN bindings) \cup {var_name} |->
        IF x = var_name THEN term ELSE bindings[x]]

RECURSIVE substitute_variables(_, _)
substitute_variables(term, bindings) ==
    IF is_variable(term)
    THEN IF get_variable_name(term) \in DOMAIN bindings
         THEN bindings[get_variable_name(term)]
         ELSE term
    ELSE IF IsList(term)
    THEN List([i \in 1..Len(term.list) |-> substitute_variables(term.list[i], bindings)])
    ELSE term

\* rename_variables with the suffix given (the recursive part of the function)
RECURSIVE rename_variables(_, _)
rename_variables(term, suffix) ==
    IF is_variable(term)
    THEN List(<<term.list[1], Atom(get_variable_name(term) \o "_" \o suffix)>>)
    ELSE IF IsList(term)
    THEN List([i \in 1..Len(term.list) |-> rename_variables(term.list[i], suffix)])
    ELSE term

(***************************************************************************)
(* unify.  The result is [st, b]: st = "ok" (the bindings object is         *)
(* returned), "fail" (None is returned) or "rec" (RecursionError); b is the *)
(* value of the bindings object, which unify updates in place, when the     *)
(* call ends.                                                               *)
(***************************************************************************)
RECURSIVE unify(_, _, _, _)
RECURSIVE unify_items(_, _, _, _, _)

unify_items(term1, term2, i, bindings, d) ==
    IF i > Len(term1.list)
    THEN [st |-> "ok", b |-> bindings]
    ELSE LET item(r) == IF r.st = "ok"
                         THEN unify_items(term1, term2, i + 1, r.b, d)
                         ELSE r
         IN  item(unify(term1.list[i], term2.list[i], bindings, d - 1))

unify(term1, term2, bindings, d) ==
    IF d <= 0 THEN [st |-> "rec", b |-> bindings]
    ELSE IF is_variable(term1)
    THEN IF get_variable_name(term1) \in DOMAIN bindings
         THEN unify(bindings[get_variable_name(term1)], term2, bindings, d - 1)
         ELSE [st |-> "ok", b |-> Bind(bindings, get_variable_name(term1), term2)]
    ELSE IF is_variable(term2)
    THEN IF get_variable_name(term2) \in DOMAIN bindings
         THEN unify(term1, bindings[get_variable_name(term2)], bindings, d - 1)
         ELSE [st |-> "ok", b |-> Bind(bindings, get_variable_name(term2), term1)]
    ELSE IF is_atom(term1) /\ is_atom(term2)
    THEN IF term1 = term2
         THEN [st |-> "ok", b |-> bindings]
         ELSE [st |-> "fail", b |-> bindings]
    ELSE IF IsList(term1) /\ IsList(term2)
    THEN IF Len(term1.list) # Len(term2.list)
         THEN [st |-> "fail", b |-> bindings]
         ELSE unify_items(term1, term2, 1, bindings, d)
    ELSE [st |-> "fail", b |-> bindings]

(***************************************************************************)
(* resolve_variable_chains.  [st, t]: st = "ok" with the resolved term t,   *)
(* or "rec" (RecursionError).                                               *)
(***************************************************************************)
RECURSIVE resolve_variable_chains(_, _, _)
RECURSIVE resolve_items(_, _, _, _, _)

resolve_items(term, i, bindings, d, done) ==
    IF i > Len(term.list)
    THEN [st |-> "ok", t |-> List(done)]
    ELSE LET item(r) == IF r.st = "ok"
                         THEN resolve_items(term, i + 1, bindings, d, Append(done, r.t))
                         ELSE r
         IN  item(resolve_variable_chains(term.list[i], bindings, d - 1))

resolve_variable_chains(term, bindings, d) ==
    IF d <= 0 THEN [st |-> "rec", t |-> term]
    ELSE IF is_variable(term)
    THEN IF get_variable_name(term) \in DOMAIN bindings
         THEN resolve_variable_chains(bindings[get_variable_name(term)], bindings, d - 1)
         ELSE [st |-> "ok", t |-> term]
    ELSE IF IsList(term)
    THEN resolve_items(term, 1, bindings, d, <<>>)
    ELSE [st |-> "ok", t |-> term]

(***************************************************************************)
(* Objects and calls.  copy.deepcopy(bindings) yields a fresh dict of equal *)
(* value; a callee that updates a fresh dict leaves the caller's own dict   *)
(* alone, a callee that is handed the caller's own dict does not.           *)
(***************************************************************************)
\* (DeepCopy without the copy: the dict itself is handed on, as if copy.deepcopy were
\* left out)
DeepCopy_none(bindings) == [fresh |-> FALSE, val |-> bindings]

DeepCopy(bindings) == [fresh |-> TRUE, val |-> bindings]

\* the caller's dict after a call that was handed `passed` and left it as `after`
AfterCall(own, passed, after) == IF passed.fresh THEN own ELSE after

\* the suffix random.randint returns on draw number n + 1
Draw(env, n) == env.rnd[(n % Len(env.rnd)) + 1]

\* the result of a solve_* function that ends by an uncaught RecursionError
Raised(bindings, n) ==
    [sols |-> <<>>, n |-> n, err |-> TRUE, arg |-> bindings, alias |-> FALSE,
     log |-> <<>>]

\* the result of a solve_* function that returns the list `sols`; alias says
\* that the list holds the argument object itself (return [bindings])
Returned(sols, bindings, n, alias) ==
    [sols |-> sols, n |-> n, err |-> FALSE, arg |-> bindings, alias |-> alias,
     log |-> <<>>]

\* Python truth value of a term (`if not body`)
Falsy(t) ==
    \/ IsList(t) /\ Len(t.list) = 0
    \/ t = Atom("")
    \/ t = Num(0)

BuiltinNames ==
    {Atom("findall"), Atom("not"), Atom("="), Atom(">"), Atom("<"), Atom("writeln")}

is_builtin_predicate(goal) ==
    /\ IsList(goal) /\ Len(goal.list) >= 2
    /\ IsList(goal.list[1]) /\ Len(goal.list[1].list) = 2 /\ goal.list[1].list[1] = Atom("n")
    /\ goal.list[1].list[2] \in BuiltinNames

(***************************************************************************)
(* The resolution engine and the built-ins.  Each function takes the        *)
(* bindings object, the knowledge base and oracle (env), the number of      *)
(* draws made so far (n) and the frames left (d), and yields                *)
(*   sols  the list it returns,        n    the draws made when it ends,    *)
(*   err   RecursionError was raised,  arg  its bindings argument at exit,  *)
(*   alias the returned list is [bindings], the argument object itself,     *)
(*   log   (solve_goal) the renamed head and body of each rule it tried.    *)
(***************************************************************************)
RECURSIVE solve_goal(_, _, _, _, _)
RECURSIVE goal_facts(_, _, _, _, _)
RECURSIVE goal_rules(_, _, _, _, _)
RECURSIVE solve_body(_, _, _, _, _)
RECURSIVE body_rest(_, _, _, _, _, _, _)
RECURSIVE solve_builtin(_, _, _, _, _)
RECURSIVE solve_findall(_, _, _, _, _)
RECURSIVE solve_not(_, _, _, _, _)

\* the loop over self.facts, from fact i on
goal_facts(goal, i, env, d, acc) ==
    IF i > Len(env.facts) \/ acc.err THEN acc
    ELSE LET c == DeepCopy(acc.arg)
             fact(r) ==
                 goal_facts(goal, i + 1, env, d,
                     [acc EXCEPT !.arg = AfterCall(acc.arg, c, r.b),
                                 !.err = (r.st = "rec"),
                                 !.alias = ~c.fresh,
                                 !.sols = IF r.st = "ok" THEN Append(@, r.b) ELSE @])
         IN  fact(unify(goal, env.facts[i], c.val, d - 1))

\* the loop over self.rules, from rule i on
goal_rules(goal, i, env, d, acc) ==
    IF i > Len(env.rules) \/ acc.err THEN acc
    ELSE LET rule == env.rules[i]
             rule_head == rename_variables(rule.head, Draw(env, acc.n))
             rule_body == rename_variables(rule.body, Draw(env, acc.n + 1))
             c == DeepCopy(acc.arg)
             \* acc1: after unify with the head; s: what solve_body returned
             body(acc1, s) ==
                 goal_rules(goal, i + 1, env, d,
                     [acc1 EXCEPT !.sols = @ \o s.sols,
                                  !.n = s.n,
                                  !.err = s.err,
                                  !.arg = AfterCall(@, c, s.arg)])
             head(r, acc1) ==
                 IF r.st # "ok" THEN goal_rules(goal, i + 1, env, d, acc1)
                 ELSE body(acc1, solve_body(rule_body, r.b, env, acc1.n, d - 1))
             rule_(r) ==
                 head(r, [acc EXCEPT !.n = @ + 2,
                                     !.arg = AfterCall(acc.arg, c, r.b),
                                     !.err = (r.st = "rec"),
                                     !.log = Append(@, [rule |-> i, head |-> rule_head,
                                                        body |-> rule_body])])
         IN  rule_(unify(goal, rule_head, c.val, d - 1))

solve_goal(goal, bindings, env, n, d) ==
    IF d <= 0 THEN Raised(bindings, n)
    ELSE goal_rules(goal, 1, env, d,
             goal_facts(goal, 1, env, d, Returned(<<>>, bindings, n, FALSE)))

\* the loop `for solution in ..._solutions` of solve_body when rest_goals is not
\* empty; same says that the solutions are the caller's own bindings object
body_rest(sols, i, rest_goals, env, d, same, acc) ==
    IF i > Len(sols) \/ acc.err THEN acc
    ELSE LET rest(s) ==
                 body_rest(sols, i + 1, rest_goals, env, d, same,
                     [acc EXCEPT !.sols = @ \o s.sols,
                                 !.n = s.n,
                                 !.err = s.err,
                                 !.alias = same /\ s.alias,
                                 !.arg = IF same THEN s.arg ELSE @])
         IN  rest(solve_body(rest_goals, sols[i], env, acc.n, d - 1))

solve_body(body, bindings, env, n, d) ==
    IF d <= 0 THEN Raised(bindings, n)
    ELSE IF Falsy(body) THEN Returned(<<bindings>>, bindings, n, TRUE)
    ELSE IF ~(IsList(body) /\ Len(body.list) > 0) THEN Returned(<<>>, bindings, n, FALSE)
    ELSE LET first_goal == body.list[1]
             rest_goals == List(Tail(body.list))
             \* g: what solving first_goal returned
             first(g) ==
                 IF g.err THEN Raised(g.arg, g.n)
                 ELSE IF Len(rest_goals.list) = 0
                 THEN Returned(g.sols, g.arg, g.n, g.alias)
                 ELSE body_rest(g.sols, 1, rest_goals, env, d, g.alias,
                                Returned(<<>>, g.arg, g.n, FALSE))
         IN  first(IF is_builtin_predicate(first_goal)
                   THEN solve_builtin(first_goal, bindings, env, n, d - 1)
                   ELSE solve_goal(first_goal, bindings, env, n, d - 1))

\* `if unify(...) is not None: return [new_bindings]; return []`, where c
\* is the dict handed to unify and r is what unify did
unified(bindings, c, r, n) ==
    IF r.st = "rec" THEN Raised(AfterCall(bindings, c, r.b), n)
    ELSE IF r.st = "ok"
    THEN Returned(<<r.b>>, AfterCall(bindings, c, r.b), n, ~c.fresh)
    ELSE Returned(<<>>, AfterCall(bindings, c, r.b), n, FALSE)

\* (findall_result without its first branch: the result variable is unified
\* with the results like any other term, so a binding it has must agree)
findall_result_unify(result_var, results, bindings, n, d) ==
    LET c == DeepCopy(bindings)
    IN  unified(bindings, c, unify(result_var, results, c.val, d - 1), n)

\* the end of solve_findall: "Unify the result with the result variable"
findall_result(result_var, results, bindings, n, d) ==
    IF is_variable(result_var)
    THEN LET c == DeepCopy(bindings)
             new_bindings == Bind(c.val, get_variable_name(result_var), results)
         IN  Returned(<<new_bindings>>, AfterCall(bindings, c, new_bindings), n, ~c.fresh)
    ELSE LET c == DeepCopy(bindings)
         IN  unified(bindings, c, unify(result_var, results, c.val, d - 1), n)

solve_equals(args, bindings, env, n, d) ==
    IF d <= 0 THEN Raised(bindings, n)
    ELSE IF Len(args.list) # 2 THEN Returned(<<>>, bindings, n, FALSE)
    ELSE LET c == DeepCopy(bindings)
         IN  unified(bindings, c, unify(args.list[1], args.list[2], c.val, d - 1), n)

solve_greater(args, bindings, env, n, d) ==
    IF d <= 0 THEN Raised(bindings, n)
    ELSE IF Len(args.list) # 2 THEN Returned(<<>>, bindings, n, FALSE)
    ELSE LET left == substitute_variables(args.list[1], bindings)
             right == substitute_variables(args.list[2], bindings)
         IN  IF IsNumber(left) /\ IsNumber(right) /\ left.num > right.num
             THEN Returned(<<bindings>>, bindings, n, TRUE)
             ELSE Returned(<<>>, bindings, n, FALSE)

solve_not(args, bindings, env, n, d) ==
    IF d <= 0 THEN Raised(bindings, n)
    ELSE IF Len(args.list) # 1 THEN Returned(<<>>, bindings, n, FALSE)
    ELSE LET c == DeepCopy(bindings)
             \* s: what solve_goal returned; arg1: bindings after that call
             negated(s, arg1) ==
                 IF s.err THEN Raised(arg1, s.n)
                 ELSE IF Len(s.sols) = 0 THEN Returned(<<arg1>>, arg1, s.n, TRUE)
                 ELSE Returned(<<>>, arg1, s.n, FALSE)
             solved(s) == negated(s, AfterCall(bindings, c, s.arg))
         IN  solved(solve_goal(args.list[1], c.val, env, n, d - 1))

\* (the line written to standard output is not part of the model)
solve_writeln(args, bindings, env, n, d) ==
    IF d <= 0 THEN Raised(bindings, n)
    ELSE IF Len(args.list) # 1 THEN Returned(<<>>, bindings, n, FALSE)
    ELSE Returned(<<bindings>>, bindings, n, TRUE)

solve_findall(args, bindings, env, n, d) ==
    IF d <= 0 THEN Raised(bindings, n)
    ELSE IF Len(args.list) # 3 THEN Returned(<<>>, bindings, n, FALSE)
    ELSE LET template == args.list[1]
             goal_list == args.list[2]
             result_var == args.list[3]
         IN  IF ~IsList(goal_list) THEN Returned(<<>>, bindings, n, FALSE)
             ELSE LET c == DeepCopy(bindings)
                      \* g: what solve_body returned for the goal list
                      collected(g) ==
                          IF g.err THEN Raised(AfterCall(bindings, c, g.arg), g.n)
                          ELSE findall_result(result_var,
                                   List([i \in 1..Len(g.sols) |->
                                           substitute_variables(template, g.sols[i])]),
                                   AfterCall(bindings, c, g.arg), g.n, d)
                  IN  collected(solve_body(goal_list, c.val, env, n, d - 1))

solve_builtin(goal, bindings, env, n, d) ==
    IF d <= 0 THEN Raised(bindings, n)
    ELSE IF ~IsList(goal) \/ Len(goal.list) < 2 THEN Returned(<<>>, bindings, n, FALSE)
    ELSE LET pred_name == IF IsList(goal.list[1]) /\ goal.list[1].list[1] = Atom("n")
                          THEN goal.list[1].list[2] ELSE Atom("")
         IN  IF pred_name = Atom("findall")
             THEN solve_findall(goal.list[2], bindings, env, n, d - 1)
             ELSE IF pred_name = Atom("=")
             THEN solve_equals(goal.list[2], bindings, env, n, d - 1)
             ELSE IF pred_name = Atom(">")
             THEN solve_greater(goal.list[2], bindings, env, n, d - 1)
             ELSE IF pred_name = Atom("not")
             THEN solve_not(goal.list[2], bindings, env, n, d - 1)
             ELSE IF pred_name = Atom("writeln")
             THEN solve_writeln(goal.list[2], bindings, env, n, d - 1)
             ELSE Returned(<<>>, bindings, n, FALSE)

(***************************************************************************)
(* parse_knowledge_base and only_ssi_test.                                  *)
(***************************************************************************)
IsRuleClause(item) == Len(item.list) >= 3 /\ item.list[3] = Atom(":-")

RuleOf(item) ==
    [head |-> List(SubSeq(item.list, 1, 2)),
     body |-> IF Len(item.list) > 3 THEN item.list[4] ELSE List(<<>>)]

\* kb is a sequence of clauses; the result is the pair of fields it sets
RECURSIVE parse_knowledge_base(_)
parse_knowledge_base(kb) ==
    IF Len(kb) = 0 THEN [facts |-> <<>>, rules |-> <<>>]
    ELSE LET item == kb[Len(kb)]
             before == parse_knowledge_base(SubSeq(kb, 1, Len(kb) - 1))
         IN  IF IsRuleClause(item)
             THEN [before EXCEPT !.rules = Append(@, RuleOf(item))]
             ELSE [before EXCEPT !.facts = Append(@, item)]

\* line 333 of only_ssi_test: the one-pair list around the resolved value
query_resolved(variable, resolved) ==
    IF resolved.st # "ok" THEN [st |-> resolved.st, value |-> List(<<>>)]
    ELSE [st |-> "ok", value |-> List(<<List(<<variable, resolved.t>>)>>)]

\* lines 319-333 of only_ssi_test: the answer built from the list s that
\* solve_goal returned
query_answer(variable, s, d) ==
    IF s.err THEN [st |-> "rec", value |-> List(<<>>)]
    ELSE IF Len(s.sols) > 0 /\ get_variable_name(variable) \in DOMAIN s.sols[1]
    THEN query_resolved(variable,
             resolve_variable_chains(s.sols[1][get_variable_name(variable)],
                                     s.sols[1], d - 1))
    ELSE [st |-> "ok", value |-> List(<<List(<<variable, List(<<>>)>>)>>)]

\* [st, value, facts, rules]: st = "ok" and the list returned, or "rec"
\* (RecursionError); facts and rules are the fields after the call
only_ssi_test(query, kb, rnd, d) ==
    LET parsed == parse_knowledge_base(kb)
        env == [facts |-> parsed.facts, rules |-> parsed.rules, rnd |-> rnd]
        predicate_info == query.list[1]
        variable_info == query.list[2]
        goal == List(<<predicate_info, variable_info>>)
    IN  [answer |-> query_answer(variable_info.list[1],
                                 solve_goal(goal, EmptyBindings, env, 0, d - 1), d),
         facts |-> parsed.facts,
         rules |-> parsed.rules]

(***************************************************************************)
(* main(): the family-tree knowledge base and its query.                    *)
(***************************************************************************)
Fact1(name, a) == Goal(name, <<Atom(a)>>)

Fact2(name, a, b) == Goal(name, <<Atom(a), Atom(b)>>)

Born(a, year) == Goal("yearofbirth", <<Atom(a), Num(year)>>)

\* a rule clause  head :- body
Clause(name, args, body) == List(<<Pred(name), List(args), Atom(":-"), List(body)>>)

MainQuery == Goal("older_brother", <<Var("result6")>>)

MainKB ==
    << Fact2("parent", "albert", "jim"),
       Fact2("parent", "albert", "peter"),
       Fact2("parent", "jim", "brian"),
       Fact2("parent", "john", "darren"),
       Fact2("parent", "peter", "lee"),
       Fact2("parent", "peter", "sandra"),
       Fact2("parent", "peter", "james"),
       Fact2("parent", "peter", "kate"),
       Fact2("parent", "peter", "kyle"),
       Fact2("parent", "brian", "jenny"),
       Fact2("parent", "irene", "jim"),
       Fact2("parent", "irene", "peter"),
       Fact2("parent", "pat", "brian"),
       Fact2("parent", "pat", "darren"),
       Fact2("parent", "amanda", "jenny"),
       Clause("older_brother", <<Var("c")>>,
           << Goal("findall",
                  << List(<<Var("a"), Var("b")>>),
                     List(<< Goal("siblings", <<Var("a"), Var("b")>>),
                             Goal("male", <<Var("a")>>),
                             Goal("older", <<Var("a"), Var("b")>>) >>),
                     Var("c") >>) >>),
       Clause("siblings", <<Var("a"), Var("b")>>,
           << Goal("parent", <<Var("x"), Var("a")>>),
              Goal("parent", <<Var("x"), Var("b")>>),
              Goal("not", << Goal("=", <<Var("a"), Var("b")>>) >>) >>),
       Fact1("male", "albert"),
       Fact1("male", "jim"),
       Fact1("male", "peter"),
       Fact1("male", "brian"),
       Fact1("male", "john"),
       Fact1("male", "darren"),
       Fact1("male", "james"),
       Fact1("male", "kyle"),
       Born("irene", 1923),
       Born("pat", 1954),
       Born("lee", 1970),
       Born("sandra", 1973),
       Born("jenny", 2004),
       Born("amanda", 1979),
       Born("albert", 1926),
       Born("jim", 1949),
       Born("peter", 1945),
       Born("brian", 1974),
       Born("john", 1955),
       Born("darren", 1976),
       Born("james", 1969),
       Born("kate", 1975),
       Born("kyle", 1976),
       Clause("older", <<Var("a"), Var("b")>>,
           << Goal("yearofbirth", <<Var("a"), Var("y1")>>),
              Goal("yearofbirth", <<Var("b"), Var("y2")>>),
              Goal(">", <<Var("y2"), Var("y1")>>) >>),
       List(<< Pred("family_test"), Atom(":-"),
               List(<< Goal("older_brother", <<Var("result6")>>),
                       Goal("writeln", <<Var("result6")>>) >>) >>) >>

Pair(a, b) == List(<<Atom(a), Atom(b)>>)

\* expected_result of main()
MainExpected ==
    List(<< List(<< Var("result6"),
                    List(<< Pair("peter", "jim"), Pair("james", "lee"),
                            Pair("james", "sandra"), Pair("james", "kate"),
                            Pair("james", "kyle"), Pair("peter", "jim"),
                            Pair("brian", "darren") >>) >>) >>)

(***************************************************************************)
(* The inputs the operations are called with.                               *)
(***************************************************************************)
\* str(random.randint(1000, 9999)): two of the suffixes it can return
Suffixes == {"1000", "1001"}

Oracles == [1..OracleLen -> Suffixes]

BaseTerms == {Atom("a"), Atom("b"), Var("X"), Var("Y")}

\* the base terms and the lists of at most MaxArgs of them
Terms ==
    BaseTerms \cup {List(e) : e \in UNION {[1..k -> BaseTerms] : k \in 0..MaxArgs}}

BoundValues == {Atom("a"), Var("X"), Var("Y")}

\* the dicts that bind some of X, Y
BindingSets == UNION {[D -> BoundValues] : D \in SUBSET {"X", "Y"}}

\* the dicts the solver's functions are called with
SolveBindings ==
    { EmptyBindings,
      Bind(EmptyBindings, "X", Atom("a")),
      Bind(EmptyBindings, "X", Var("Y")),
      Bind(Bind(EmptyBindings, "X", Atom("b")), "Y", Atom("a")) }

\* a small knowledge base: facts (one of them holding a variable, one named
\* "<"), a rule whose head and body share a variable, and a rule that binds
\* its variable before it collects into it
TestKB ==
    << Fact2("p", "a", "c"),
       Fact2("p", "b", "b"),
       Fact1("q", "a"),
       Fact1("q", "b"),
       Goal("t", <<Var("Y")>>),
       Goal("<", <<Num(1), Num(2)>>),
       Clause("r", <<Var("X")>>, << Goal("q", <<Var("X")>>) >>),
       Clause("s", <<Var("X")>>,
           << Goal("=", <<Var("X"), Atom("b")>>),
              Goal("findall",
                  <<Var("Y"), List(<<Goal("q", <<Var("Y")>>)>>), Var("X")>>) >>) >>

KnowledgeBases == {<<>>, TestKB, MainKB}

Queries ==
    { Goal("q", <<Var("X")>>), Goal("r", <<Var("X")>>), Goal("s", <<Var("X")>>),
      Goal("t", <<Var("X")>>), Goal("t", <<Var("Y")>>), Goal("u", <<Var("X")>>),
      Goal("p", <<Var("X"), Atom("b")>>) }

Goals ==
    Queries \cup
    { Goal("p", <<Var("X"), Var("Y")>>), Goal("q", <<Atom("a")>>),
      Goal("<", <<Num(1), Num(2)>>) }

FindallGoals ==
    { Goal("findall", <<t, g, r>>) :
        t \in {Var("Y"), List(<<Var("X"), Var("Y")>>)},
        g \in { List(<<Goal("q", <<Var("Y")>>)>>),
                List(<<Goal("u", <<Var("Y")>>)>>),
                List(<<Goal("p", <<Var("Y"), Atom("a")>>), Goal("q", <<Var("Y")>>)>>),
                List(<<>>) },
        r \in {Var("X"), Var("Y"), Atom("a"), List(<<>>), List(<<Var("X")>>)} }

BuiltinGoals ==
    FindallGoals \cup
    { Goal("=", <<Var("X"), Atom("a")>>), Goal("=", <<Var("X"), Var("Y")>>),
      Goal("=", <<Atom("a"), Atom("b")>>),
      Goal(">", <<Num(2), Num(1)>>), Goal(">", <<Num(1), Num(2)>>),
      Goal(">", <<Var("X"), Num(1)>>), Goal(">", <<Atom("a"), Num(1)>>),
      Goal("not", <<Goal("q", <<Var("X")>>)>>),
      Goal("not", <<Goal("u", <<Var("X")>>)>>),
      Goal("not", <<Goal("p", <<Var("X"), Atom("a")>>)>>),
      Goal("not", <<Goal("=", <<Atom("a"), Atom("a")>>)>>),
      Goal("writeln", <<Var("X")>>),
      Goal("<", <<Num(1), Num(2)>>) }

\* conjunctions: the empty one, single goals, and a built-in or a goal
\* followed by a goal
Bodies ==
    {List(<<>>)} \cup {List(<<g>>) : g \in Goals \cup BuiltinGoals} \cup
    {List(<<g, h>>) :
        g \in { Goal("q", <<Var("X")>>), Goal("p", <<Var("X"), Var("Y")>>),
                Goal("=", <<Var("X"), Atom("a")>>),
                Goal("not", <<Goal("u", <<Var("X")>>)>>),
                Goal(">", <<Num(2), Num(1)>>) },
        h \in { Goal("q", <<Var("X")>>), Goal("p", <<Var("X"), Atom("b")>>),
                Goal("=", <<Var("Y"), Var("X")>>) }}

(***************************************************************************)
(* The state machine: one interpreter object (its fields facts and rules)   *)
(* and a single-threaded caller that calls one method at a time, looks at   *)
(* what it returned (op, inp, out) and goes on.                             *)
(***************************************************************************)
Env(rnd) == [facts |-> facts, rules |-> rules, rnd |-> rnd]

Init ==
    /\ facts = <<>>
    /\ rules = <<>>
    /\ pc = "idle"
    /\ op = "none"
    /\ inp = <<>>
    /\ out = <<>>

ParseKnowledgeBase ==
    \E kb \in KnowledgeBases :
        /\ pc = "idle"
        /\ pc' = "returned"
        /\ op' = "parse_knowledge_base"
        /\ inp' = [kb |-> kb]
        /\ facts' = parse_knowledge_base(kb).facts
        /\ rules' = parse_knowledge_base(kb).rules
        /\ out' = <<>>

CallUnify ==
    \E term1 \in Terms, term2 \in Terms, bindings \in BindingSets :
        /\ pc = "idle"
        /\ pc' = "returned"
        /\ op' = "unify"
        /\ inp' = [term1 |-> term1, term2 |-> term2, bindings |-> bindings]
        /\ out' = unify(term1, term2, bindings, RecursionLimit)
        /\ UNCHANGED <<facts, rules>>

CallSolveGoal ==
    \E goal \in Goals, bindings \in SolveBindings, rnd \in Oracles :
        /\ pc = "idle"
        /\ pc' = "returned"
        /\ op' = "solve_goal"
        /\ inp' = [goal |-> goal, bindings |-> bindings, rnd |-> rnd]
        /\ out' = solve_goal(goal, bindings, Env(rnd), 0, RecursionLimit)
        /\ UNCHANGED <<facts, rules>>

CallSolveBody ==
    \E body \in Bodies, bindings \in SolveBindings, rnd \in Oracles :
        /\ pc = "idle"
        /\ pc' = "returned"
        /\ op' = "solve_body"
        /\ inp' = [body |-> body, bindings |-> bindings, rnd |-> rnd]
        /\ out' = solve_body(body, bindings, Env(rnd), 0, RecursionLimit)
        /\ UNCHANGED <<facts, rules>>

CallSolveBuiltin ==
    \E goal \in BuiltinGoals, bindings \in SolveBindings, rnd \in Oracles :
        /\ pc = "idle"
        /\ pc' = "returned"
        /\ op' = "solve_builtin"
        /\ inp' = [goal |-> goal, bindings |-> bindings, rnd |-> rnd]
        /\ out' = solve_builtin(goal, bindings, Env(rnd), 0, RecursionLimit)
        /\ UNCHANGED <<facts, rules>>

CallOnlySsiTest ==
    \E query \in Queries, kb \in KnowledgeBases \ {MainKB}, rnd \in Oracles :
        /\ pc = "idle"
        /\ \E r \in {only_ssi_test(query, kb, rnd, RecursionLimit)} :
            /\ pc' = "returned"
            /\ op' = "only_ssi_test"
            /\ inp' = [query |-> query, kb |-> kb, rnd |-> rnd]
            /\ out' = r.answer
            /\ facts' = r.facts
            /\ rules' = r.rules

\* main(): the query older_brother(result6) against the family tree
Main ==
    \E rnd \in Oracles :
        /\ pc = "idle"
        /\ \E r \in {only_ssi_test(MainQuery, MainKB, rnd, RecursionLimit)} :
            /\ pc' = "returned"
            /\ op' = "main"
            /\ inp' = [query |-> MainQuery, kb |-> MainKB, rnd |-> rnd]
            /\ out' = r.answer
            /\ facts' = r.facts
            /\ rules' = r.rules

\* the caller is done with the result and is ready for its next call
Return ==
    /\ pc = "returned"
    /\ pc' = "idle"
    /\ op' = "none"
    /\ inp' = <<>>
    /\ out' = <<>>
    /\ UNCHANGED <<facts, rules>>

Next ==
    \/ ParseKnowledgeBase
    \/ CallUnify
    \/ CallSolveGoal
    \/ CallSolveBody
    \/ CallSolveBuiltin
    \/ CallOnlySsiTest
    \/ Main
    \/ Return

Spec == Init /\ [][Next]_vars

\* the solver's functions alone (unify and main() are reached through them)
SolverNext ==
    \/ ParseKnowledgeBase
    \/ CallSolveGoal
    \/ CallSolveBody
    \/ CallSolveBuiltin
    \/ CallOnlySsiTest
    \/ Return

SolverSpec == Init /\ [][SolverNext]_vars

(***************************************************************************)
(* Properties.                                                              *)
(***************************************************************************)
Ret(o) == pc = "returned" /\ op = o

RetQuery == pc = "returned" /\ op \in {"only_ssi_test", "main"}

RetSolve == pc = "returned" /\ op \in {"solve_goal", "solve_body", "solve_builtin"}

\* the list [[variable, value]] the query entry point returns
QueryResult(variable, value) == List(<<List(<<variable, value>>)>>)

RECURSIVE IsGround(_)
IsGround(t) ==
    /\ ~is_variable(t)
    /\ IsList(t) => \A i \in 1..Len(t.list) : IsGround(t.list[i])

\* the binding chain of `term` ends in a term that is not a variable
RECURSIVE EndsInNonVariable(_, _, _)
EndsInNonVariable(term, bindings, fuel) ==
    IF ~is_variable(term) THEN TRUE
    ELSE /\ get_variable_name(term) \in DOMAIN bindings
         /\ fuel > 0
         /\ EndsInNonVariable(bindings[get_variable_name(term)], bindings, fuel - 1)

\* what solve_goal yields for the query of the call that has just returned
QuerySolutions ==
    solve_goal(inp.query, EmptyBindings, Env(inp.rnd), 0, RecursionLimit - 1)

\* C1: main()'s query older_brother(result6) against the family tree returns
\* result6 paired with the seven pairs of expected_result, in that order,
\* whichever suffixes are drawn.
C1_MainYieldsExpected ==
    Ret("main") => out.st = "ok" /\ out.value = MainExpected

\* the third argument of a findall goal, resolved in a solution
FindallBound(sol) == resolve_variable_chains(inp.goal.list[2].list[3], sol, RecursionLimit)

IsFindallCall ==
    /\ Ret("solve_builtin")
    /\ inp.goal.list[1] = Pred("findall")
    /\ Len(inp.goal.list[2].list) = 3

\* the goal conjunction of the findall call has no proof under the bindings
FindallZeroProofs ==
    LET g == solve_body(inp.goal.list[2].list[2], inp.bindings, Env(inp.rnd), 0,
                        RecursionLimit)
    IN  ~g.err /\ Len(g.sols) = 0

FindallOneEmpty ==
    /\ ~out.err
    /\ Len(out.sols) = 1
    /\ FindallBound(out.sols[1]) = [st |-> "ok", t |-> List(<<>>)]

\* C2 (as stated): findall(T, G, R) whose G has no proof returns exactly one
\* solution, with R equal to the empty list, for every T, bindings and R.
C2_FindallNeverFails ==
    IsFindallCall /\ FindallZeroProofs => FindallOneEmpty

\* C2 (amended): findall(T, G, R) whose G has no proof returns exactly one
\* solution, with R equal to the empty list, when R is a variable reference
\* or the empty list; for any other R it returns no solution.
C2_FindallEmptyResult ==
    IsFindallCall /\ FindallZeroProofs =>
        IF is_variable(inp.goal.list[2].list[3]) \/ inp.goal.list[2].list[3] = List(<<>>)
        THEN FindallOneEmpty
        ELSE ~out.err /\ Len(out.sols) = 0

\* a findall whose goals have no proof has bound its result variable, one
\* that the incoming bindings had bound to something else
C2_Witness ==
    /\ IsFindallCall
    /\ FindallZeroProofs
    /\ inp.goal.list[2].list[3] = Var("X")
    /\ "X" \in DOMAIN inp.bindings
    /\ Len(facts) > 0
    /\ out.sols = <<Bind(inp.bindings, "X", List(<<>>))>>

\* C3: when the goal has no proof, or the requested variable's binding chain
\* does not end in a non-variable term, the query entry point raises no error
\* and returns the variable paired with an empty list (never an unbound
\* variable reference).
C3_UnboundYieldsEmpty ==
    RetQuery =>
        LET s == QuerySolutions
            variable == inp.query.list[2].list[1]
        IN  ~s.err /\ (Len(s.sols) = 0 \/
                       ~EndsInNonVariable(variable, s.sols[1], RecursionLimit)) =>
                out.st = "ok" /\ out.value = QueryResult(variable, List(<<>>))

\* C4: unify(t1, t2, b) succeeds exactly when unify(t2, t1, b) succeeds.
C4_UnifySymmetric ==
    Ret("unify") =>
        (out.st = "ok" <=>
            unify(inp.term2, inp.term1, inp.bindings, RecursionLimit).st = "ok")

\* the outcome of the query entry point, up to the names of renamed variables
SameOutcome(r1, r2) ==
    /\ r1.st = r2.st
    /\ r1.st = "ok" =>
        /\ IsGround(r1.value.list[1].list[2]) = IsGround(r2.value.list[1].list[2])
        /\ IsGround(r1.value.list[1].list[2]) => r1.value = r2.value

\* C5: the same query against the same knowledge base ends the same way and
\* returns the same result (ground or not, and its value when ground)
\* whichever suffixes rename_variables draws.
C5_ResultIndependentOfSuffixes ==
    RetQuery =>
        \A rnd \in Oracles :
            SameOutcome(out, only_ssi_test(inp.query, inp.kb, rnd, RecursionLimit).answer)

\* C6: each rule invocation of solve_goal renames the rule's head and body
\* with one and the same suffix.
C6_OneSuffixPerInvocation ==
    Ret("solve_goal") =>
        \A k \in 1..Len(out.log) :
            \E suffix \in Suffixes :
                /\ out.log[k].head = rename_variables(rules[out.log[k].rule].head, suffix)
                /\ out.log[k].body = rename_variables(rules[out.log[k].rule].body, suffix)

\* the predicate name of a goal
PredicateName(goal) == goal.list[1].list[2]

\* C7: a single-goal body whose predicate name is none of findall, not, =, >,
\* writeln is resolved by solve_goal: solve_body returns solve_goal's solutions.
C7_OtherNamesGoToSolveGoal ==
    Ret("solve_body") /\ Len(inp.body.list) = 1 =>
        (PredicateName(inp.body.list[1]) \notin
                {Atom("findall"), Atom("not"), Atom("="), Atom(">"), Atom("writeln")}
            => out.sols = solve_goal(inp.body.list[1], inp.bindings, Env(inp.rnd), 0,
                                     RecursionLimit - 1).sols)

\* bindings b1 are kept in b2: same variables and more, bound to the same terms
Extends(b2, b1) == \A v \in DOMAIN b1 : v \in DOMAIN b2 /\ b2[v] = b1[v]

\* C8: every binding set returned by solve_goal, solve_body or a built-in keeps
\* every incoming binding unchanged.
C8_BindingsMonotonic ==
    RetSolve => \A k \in 1..Len(out.sols) : Extends(out.sols[k], inp.bindings)

\* the solutions of the facts from fact i on, each tried on the bindings b
RECURSIVE FactSolutions(_, _, _, _)
FactSolutions(goal, b, env, i) ==
    IF i > Len(env.facts) THEN <<>>
    ELSE LET r == unify(goal, env.facts[i], b, RecursionLimit - 1)
         IN  (IF r.st = "ok" THEN <<r.b>> ELSE <<>>) \o FactSolutions(goal, b, env, i + 1)

\* the solutions of the rules from rule i on, each tried on the bindings b,
\* n draws having been made
RECURSIVE RuleSolutions(_, _, _, _, _)
RuleSolutions(goal, b, env, i, n) ==
    IF i > Len(env.rules) THEN <<>>
    ELSE LET head == rename_variables(env.rules[i].head, Draw(env, n))
             body == rename_variables(env.rules[i].body, Draw(env, n + 1))
             r == unify(goal, head, b, RecursionLimit - 1)
             s == solve_body(body, r.b, env, n + 2, RecursionLimit - 1)
         IN  IF r.st = "ok"
             THEN s.sols \o RuleSolutions(goal, b, env, i + 1, s.n)
             ELSE RuleSolutions(goal, b, env, i + 1, n + 2)

\* C9: solve_goal, solve_body and the built-ins leave the caller's binding set
\* as it was, and every alternative is explored from the caller's bindings
\* alone: the solutions of solve_goal are those of each fact and each rule
\* tried on the incoming bindings, not's solution is the incoming bindings,
\* and findall's solution differs from them in its result variable only.
C9_BranchesIsolated ==
    /\ RetSolve => out.arg = inp.bindings
    /\ Ret("solve_goal") /\ ~out.err =>
        out.sols = FactSolutions(inp.goal, inp.bindings, Env(inp.rnd), 1)
                   \o RuleSolutions(inp.goal, inp.bindings, Env(inp.rnd), 1, 0)
    /\ Ret("solve_builtin") /\ inp.goal.list[1] = Pred("not") =>
        out.sols \in {<<>>, <<inp.bindings>>}
    /\ IsFindallCall /\ is_variable(inp.goal.list[2].list[3]) =>
        \A k \in 1..Len(out.sols) :
            \A v \in DOMAIN out.sols[k] \ {get_variable_name(inp.goal.list[2].list[3])} :
                v \in DOMAIN inp.bindings /\ out.sols[k][v] = inp.bindings[v]

\* solve_goal has returned a solution from a fact tried after a fact whose
\* unification bound a variable and then failed
C9_Witness ==
    /\ Ret("solve_goal")
    /\ Len(out.sols) > 0
    /\ \E i \in 1..Len(facts) : \E j \in (i + 1)..Len(facts) :
        /\ unify(inp.goal, facts[i], inp.bindings, RecursionLimit).st = "fail"
        /\ unify(inp.goal, facts[i], inp.bindings, RecursionLimit).b # inp.bindings
        /\ unify(inp.goal, facts[j], inp.bindings, RecursionLimit).st = "ok"

\* C10: started from an empty binding set, unify ends by returning a binding
\* set or FAIL.
C10_UnifyTerminates ==
    Ret("unify") /\ inp.bindings = EmptyBindings => out.st \in {"ok", "fail"}

====
